---- MODULE Spec2Model ----
(***************************************************************************)
(* A model of the 6502 execution core of the NES emulator:                 *)
(*   src/src/mem.rs          the Mem trait (16-bit composite accessors)    *)
(*   src/src/stack.rs        the Stacked trait and get_sp_offset           *)
(*   src/src/cpu/cpu6502.rs  Cpu6502: memory, stack, flags, step, run      *)
(* The CPU is the record [registers, mapper, clocks_to_pause, instr]; the  *)
(* 64KB mapper array is kept sparsely (absent index = byte 0).             *)
(***************************************************************************)
EXTENDS Integers, Sequences, FiniteSets, TLC

VARIABLES registers, mapper, clocks_to_pause, instr,
          harness, pre, last, prev, pushed, popped, loop

vars == <<registers, mapper, clocks_to_pause, instr,
          harness, pre, last, prev, pushed, popped, loop>>

(***************************************************************************)
(* Program constants                                                       *)
(***************************************************************************)
\* MEMORY_MAX: the mapper is [u8; MEMORY_MAX], 64KB
MEMORY_MAX == 65536
\* SP_BASE_ADDRESS: the stack is hardwired to page $01 ($0100-$01FF)
SP_BASE_ADDRESS == 256
\* the number of slots of the stack page ($0100-$01FF)
STACK_PAGE_SIZE == 256
\* PRG_ROM_ADDRESS: $8000
PRG_ROM_ADDRESS == 32768
\* PC_ADDRESS_RESET: the reset vector $FFFC
PC_ADDRESS_RESET == 65532
\* ADDRESS_BRK: the terminal program-counter sentinel of run()
ADDRESS_BRK == 65534
\* ADDRESS_TEST_PROGRAM: the test vector written by load_test_program
ADDRESS_TEST_PROGRAM == 1536

(***************************************************************************)
(* Machine arithmetic                                                      *)
(***************************************************************************)
U8(n) == n % 256
U16(n) == n % 65536

RECURSIVE BitAnd(_, _)
BitAnd(a, b) ==
    IF a = 0 \/ b = 0 THEN 0
    ELSE (IF a % 2 = 1 /\ b % 2 = 1 THEN 1 ELSE 0) + 2 * BitAnd(a \div 2, b \div 2)

RECURSIVE BitOr(_, _)
BitOr(a, b) ==
    IF a = 0 THEN b
    ELSE IF b = 0 THEN a
    ELSE (IF a % 2 = 1 \/ b % 2 = 1 THEN 1 ELSE 0) + 2 * BitOr(a \div 2, b \div 2)

\* 1 when bit n of v is set, else 0
Bit(v, n) == (v \div (2 ^ n)) % 2

\* bool as u8
B2N(b) == IF b THEN 1 ELSE 0

Reverse(s) == [i \in 1..Len(s) |-> s[Len(s) + 1 - i]]

(***************************************************************************)
(* The backing array: self.mapper[i]                                       *)
(***************************************************************************)
ZeroMem == [i \in {} |-> 0]

MemGet(m, i) == IF i \in DOMAIN m THEN m[i] ELSE 0

MemSet(m, i, v) ==
    IF v = 0 THEN [j \in (DOMAIN m) \ {i} |-> m[j]]
    ELSE [j \in (DOMAIN m) \cup {i} |-> IF j = i THEN v ELSE m[j]]

(***************************************************************************)
(* impl Mem for Cpu6502                                                    *)
(***************************************************************************)
\* mutant: the read indexes the array directly, without the mirror mask
mem_read_unmirrored(c, addr) == MemGet(c.mapper, addr)

\* addresses $0000-$1FFF are read through the low 11 bits
mem_read(c, addr) ==
    IF addr <= 8191
    THEN MemGet(c.mapper, BitAnd(addr, 2047))
    ELSE MemGet(c.mapper, addr)

\* mutant: the write applies the mirror mask of the read
mem_write_mirrored(c, addr, data) ==
    [c EXCEPT !.mapper =
        MemSet(c.mapper, IF addr < 8192 THEN BitAnd(addr, 2047) ELSE addr, data)]

\* the write indexes the array directly
mem_write(c, addr, data) == [c EXCEPT !.mapper = MemSet(c.mapper, addr, data)]

\* trait Mem: little-endian composites (pos + 1 must not overflow u16)
mem_read_u16(c, pos) ==
    LET lo == mem_read(c, pos)
        hi == mem_read(c, pos + 1)
    IN  BitOr(U16(hi * 256), lo)

mem_write_u16(c, pos, data) ==
    LET hi == U8(data \div 256)
        lo == BitAnd(data, 255)
    IN  mem_write(mem_write(c, pos, lo), pos + 1, hi)

(***************************************************************************)
(* stack.rs and impl Stacked for Cpu6502                                   *)
(***************************************************************************)
\* mutant: the stack pointer is used as the address, without the page base
get_sp_offset_zero_page(sp) == sp

get_sp_offset(sp) == BitOr(SP_BASE_ADDRESS, sp)

\* mutant: the stack grows upward
push_stack_ascending(c, val) ==
    LET sp == c.registers.sp
        w  == [c EXCEPT !.mapper = MemSet(c.mapper, BitOr(SP_BASE_ADDRESS, sp), val)]
    IN  [w EXCEPT !.registers.sp = U8(sp + 1)]

\* mutant: the decrement saturates at 0 instead of wrapping to 255
push_stack_saturating(c, val) ==
    LET sp == c.registers.sp
        w  == [c EXCEPT !.mapper = MemSet(c.mapper, BitOr(SP_BASE_ADDRESS, sp), val)]
    IN  [w EXCEPT !.registers.sp = IF sp = 0 THEN 0 ELSE sp - 1]

\* write at base|sp, then sp = sp.wrapping_sub(1)
push_stack(c, val) ==
    LET sp == c.registers.sp
        w  == mem_write(c, get_sp_offset(sp), val)
    IN  [w EXCEPT !.registers.sp = U8(sp + 255)]

\* sp = sp.wrapping_add(1), then read at base|sp; the result is [cpu, ret]
pop_stack(c) ==
    LET n == [c EXCEPT !.registers.sp = U8(c.registers.sp + 1)]
    IN  [cpu |-> n, ret |-> mem_read(n, get_sp_offset(n.registers.sp))]

\* mutant: the low byte is pushed first
push_stack16_lo_first(c, val) ==
    LET hi == BitAnd(val, 65280) \div 256
        lo == BitAnd(val, 255)
    IN  push_stack(push_stack(c, lo), hi)

push_stack16(c, val) ==
    LET hi == BitAnd(val, 65280) \div 256
        lo == BitAnd(val, 255)
    IN  push_stack(push_stack(c, hi), lo)

pop_stack16(c) ==
    LET p1 == pop_stack(c)
        p2 == pop_stack(p1.cpu)
        lo == p1.ret
        hi == p2.ret
    IN  [cpu |-> p2.cpu, ret |-> BitOr(U16(hi * 256), lo)]

(***************************************************************************)
(* Status register: Cpu6502::set_status_register_from_byte and             *)
(* Cpu6502::status_register_byte                                           *)
(***************************************************************************)
\* mutant: the overflow flag is decoded from bit 5 instead of bit 6
set_status_register_from_byte_bit5(c, v) ==
    [c EXCEPT !.registers =
        [@ EXCEPT !.carry = BitAnd(v, 1) > 0,
                  !.zero = BitAnd(v, 2) > 0,
                  !.interrupt_disabled = BitAnd(v, 4) > 0,
                  !.decimal = BitAnd(v, 8) > 0,
                  !.overflow = BitAnd(v, 32) > 0,
                  !.negative = BitAnd(v, 128) > 0]]

\* N.O._._.D.I.Z.C
set_status_register_from_byte(c, v) ==
    [c EXCEPT !.registers =
        [@ EXCEPT !.carry = BitAnd(v, 1) > 0,
                  !.zero = BitAnd(v, 2) > 0,
                  !.interrupt_disabled = BitAnd(v, 4) > 0,
                  !.decimal = BitAnd(v, 8) > 0,
                  !.overflow = BitAnd(v, 64) > 0,
                  !.negative = BitAnd(v, 128) > 0]]

\* (x as u8) << n for a bit position n < 8
Shl(x, n) == U8(x * (2 ^ n))

status_register_byte(c, is_instruction) ==
    LET r == c.registers
    IN  BitOr(Shl(B2N(r.carry), 0),
        BitOr(Shl(B2N(r.zero), 1),
        BitOr(Shl(B2N(r.interrupt_disabled), 2),
        BitOr(Shl(B2N(r.decimal), 3),
        BitOr(Shl(0, 4),
        BitOr(Shl(IF is_instruction THEN 1 ELSE 0, 5),
        BitOr(Shl(B2N(r.overflow), 6),
              Shl(B2N(r.negative), 7))))))))

(***************************************************************************)
(* Cpu6502::reset, load_program, load_test_program                         *)
(***************************************************************************)
\* mutant: reset also zeroes the Y register
reset_zeroes_y(c) ==
    LET r == [c EXCEPT !.instr = << >>, !.registers.a = 0, !.registers.x = 0,
                       !.registers.y = 0]
    IN  [r EXCEPT !.registers.pc =
            BitOr(U16(MemGet(r.mapper, PC_ADDRESS_RESET + 1) * 256),
                  MemGet(r.mapper, PC_ADDRESS_RESET))]

reset(c) ==
    LET r == [c EXCEPT !.instr = << >>, !.registers.a = 0, !.registers.x = 0]
    IN  [r EXCEPT !.registers.pc = mem_read_u16(r, PC_ADDRESS_RESET)]

\* A Vec<u8> is kept like the mapper: its length and its nonzero bytes by
\* 0-based offset.  Vec(seq) is the vector of a byte sequence.
Vec(seq) ==
    [len |-> Len(seq),
     at  |-> [i \in {k \in 0..(Len(seq) - 1) : seq[k + 1] # 0} |-> seq[i + 1]]]

VecAt(program, i) == IF i \in DOMAIN program.at THEN program.at[i] ELSE 0

\* mapper[base .. base + len].copy_from_slice(program): every index of the
\* range takes the program's byte (zero bytes leave the sparse array)
CopyFromSlice(m, base, program) ==
    LET range == base .. (base + program.len - 1)
    IN  [j \in ((DOMAIN m) \ range) \cup {base + i : i \in DOMAIN program.at} |->
            IF j \in range THEN program.at[j - base] ELSE m[j]]

\* mutant: the CPU is not reset after the load
load_program_no_reset(c, program) ==
    LET copied == [c EXCEPT !.mapper = CopyFromSlice(c.mapper, PRG_ROM_ADDRESS, program)]
    IN  mem_write_u16(copied, PC_ADDRESS_RESET, PRG_ROM_ADDRESS)

\* the program must fit: PRG_ROM_ADDRESS + Len(program) <= MEMORY_MAX
load_program(c, program) ==
    LET copied == [c EXCEPT !.mapper = CopyFromSlice(c.mapper, PRG_ROM_ADDRESS, program)]
        vec    == mem_write_u16(copied, PC_ADDRESS_RESET, PRG_ROM_ADDRESS)
    IN  reset(vec)

\* mutant: the test loader resets the CPU like the production loader
load_test_program_with_reset(c, program) ==
    LET copied == [c EXCEPT !.mapper = CopyFromSlice(c.mapper, PRG_ROM_ADDRESS, program)]
        vec    == mem_write_u16(copied, ADDRESS_TEST_PROGRAM, PRG_ROM_ADDRESS)
        r      == [vec EXCEPT !.instr = << >>, !.registers.a = 0, !.registers.x = 0]
    IN  [r EXCEPT !.registers.pc = mem_read_u16(r, PC_ADDRESS_RESET)]

load_test_program(c, program) ==
    LET copied == [c EXCEPT !.mapper = CopyFromSlice(c.mapper, PRG_ROM_ADDRESS, program)]
    IN  mem_write_u16(copied, ADDRESS_TEST_PROGRAM, PRG_ROM_ADDRESS)

(***************************************************************************)
(* Decoder and handlers.  OPCODE_TABLE, decode_addressing_mode and the     *)
(* per-operation handlers are external to the three source files; the      *)
(* entries below are the documented 6502 ones for the opcodes the harness  *)
(* programs use.  Option values are sequences: << >> is None, <<x>> Some.  *)
(***************************************************************************)
\* OPCODE_TABLE[opcode]: (operation, address mode, cycle, extra_cycle), for
\* BRK, LDA #imm, LDA abs,X, STA abs, INX, NOP, JMP abs
OPCODE_TABLE(opcode) ==
    CASE opcode = 0   -> <<"BRK", "Implied", 7, FALSE>>
      [] opcode = 169 -> <<"LDA", "Immediate", 2, FALSE>>
      [] opcode = 189 -> <<"LDA", "AbsoluteX", 4, TRUE>>
      [] opcode = 141 -> <<"STA", "Absolute", 4, FALSE>>
      [] opcode = 232 -> <<"INX", "Implied", 2, FALSE>>
      [] opcode = 234 -> <<"NOP", "Implied", 2, FALSE>>
      [] opcode = 76  -> <<"JMP", "Absolute", 3, FALSE>>

\* (operand location, raw argument, operand bytes), read at the pc of the opcode
decode_addressing_mode(c, mode) ==
    LET pc == c.registers.pc
    IN  CASE mode = "Implied"   -> << << >>, 0, 0 >>
          [] mode = "Immediate" -> << << >>, mem_read(c, U16(pc + 1)), 1 >>
          [] mode = "Absolute"  ->
                LET addr == mem_read_u16(c, U16(pc + 1))
                IN  << <<addr>>, addr, 2 >>
          [] mode = "AbsoluteX" ->
                LET base == mem_read_u16(c, U16(pc + 1))
                IN  << <<U16(base + c.registers.x)>>, base, 2 >>

\* Cpu6502::decode_instruction: (addr, addr_value, num_bytes + 1, instruction)
decode_instruction(c, opcode) ==
    LET e == OPCODE_TABLE(opcode)
        m == decode_addressing_mode(c, e[2])
    IN  [addr |-> m[1], addr_value |-> m[2], num_bytes |-> m[3] + 1,
         instr |-> [opcode |-> e[1], cycle |-> e[3], address_mode |-> e[2],
                    extra_cycle |-> e[4], write_target |-> << >>, mode_args |-> 0]]

\* Cpu6502::update_zero_and_negative_flags
update_zero_and_negative_flags(c, result) ==
    [c EXCEPT !.registers.zero = (result = 0),
              !.registers.negative = (BitAnd(result, 128) = 128)]

\* Cpu6502::read_write_target
read_write_target(c, write_target) ==
    IF write_target = << >> THEN c.registers.a ELSE mem_read(c, write_target[1])

\* Cpu6502::store_write_target
store_write_target(c, v, write_target) ==
    IF write_target = << >>
    THEN [c EXCEPT !.registers.a = v]
    ELSE mem_write(c, write_target[1], v)

\* Cpu6502::execute_instruction: the handler of the operation, applied to the
\* CPU it is handed (self.instr holds the instruction)
execute_instruction(c, instruction) ==
    LET op == instruction.opcode
    IN  CASE op = "NOP" -> c
          [] op = "LDA" ->
                LET v == IF instruction.address_mode = "Immediate"
                         THEN instruction.mode_args
                         ELSE read_write_target(c, instruction.write_target)
                IN  update_zero_and_negative_flags([c EXCEPT !.registers.a = v], v)
          [] op = "STA" -> store_write_target(c, c.registers.a, instruction.write_target)
          [] op = "INX" ->
                LET v == U8(c.registers.x + 1)
                IN  update_zero_and_negative_flags([c EXCEPT !.registers.x = v], v)
          [] op = "JMP" -> [c EXCEPT !.registers.pc = instruction.write_target[1]]

(***************************************************************************)
(* impl Clocked for Cpu6502.  A step returns the CPU, the reported status  *)
(* and the callbacks made, in order: the debug hook with the CPU it is     *)
(* shown, and the handler with the CPU it is dispatched on.                *)
(***************************************************************************)
DebugEvent(c, ins) == [ev |-> "debug", op |-> ins.opcode, cpu |-> c]
DispatchEvent(c, ins) == [ev |-> "dispatch", op |-> ins.opcode, cpu |-> c]

\* mutant: the debug hook is invoked after the program counter advanced
step_debug_late(c, ins, num_bytes) ==
    LET c1 == [c EXCEPT !.instr = <<ins>>]
        c2 == [c1 EXCEPT !.registers.pc = U16(c1.registers.pc + num_bytes)]
        c3 == execute_instruction(c2, ins)
        c4 == [c3 EXCEPT !.clocks_to_pause = U8(c3.clocks_to_pause + (ins.cycle - 1))]
    IN  [cpu |-> c4, ret |-> TRUE,
         events |-> <<DebugEvent(c2, ins), DispatchEvent(c2, ins)>>]

\* mutant: the handler is dispatched before the program counter is advanced
step_dispatch_first(c, ins, num_bytes) ==
    LET c1 == [c EXCEPT !.instr = <<ins>>]
        c2 == execute_instruction(c1, ins)
        c3 == [c2 EXCEPT !.registers.pc = U16(c2.registers.pc + num_bytes)]
        c4 == [c3 EXCEPT !.clocks_to_pause = U8(c3.clocks_to_pause + (ins.cycle - 1))]
    IN  [cpu |-> c4, ret |-> TRUE,
         events |-> <<DebugEvent(c1, ins), DispatchEvent(c1, ins)>>]

\* the non-BRK path of clocked(): lines 68-81
step(c, ins, num_bytes) ==
    LET c1 == [c EXCEPT !.instr = <<ins>>]
        c2 == [c1 EXCEPT !.registers.pc = U16(c1.registers.pc + num_bytes)]
        c3 == execute_instruction(c2, ins)
        c4 == [c3 EXCEPT !.clocks_to_pause = U8(c3.clocks_to_pause + (ins.cycle - 1))]
    IN  [cpu |-> c4, ret |-> TRUE,
         events |-> <<DebugEvent(c1, ins), DispatchEvent(c2, ins)>>]

\* mutant: the BRK step advances the program counter past the opcode
halt_advancing(c, ins) ==
    [cpu |-> [c EXCEPT !.registers.pc = U16(c.registers.pc + 1)], ret |-> FALSE,
     events |-> <<DebugEvent(c, ins)>>]

\* the BRK path of clocked(): lines 63-66
halt(c, ins) == [cpu |-> c, ret |-> FALSE, events |-> <<DebugEvent(c, ins)>>]

clocked(c) ==
    LET opcode == mem_read(c, c.registers.pc)
        d      == decode_instruction(c, opcode)
        ins    == [d.instr EXCEPT !.mode_args = d.addr_value, !.write_target = d.addr]
    IN  IF ins.opcode = "BRK" THEN halt(c, ins) ELSE step(c, ins, d.num_bytes)

(***************************************************************************)
(* Cpu6502::run and Cpu6502::bounded_run, as their loop conditions and     *)
(* loop bodies                                                             *)
(***************************************************************************)
\* mutant: the loop ignores the terminal program-counter sentinel
run_condition_no_sentinel(c, clock_status) == clock_status

\* while clock_status && self.registers.pc != ADDRESS_BRK
run_condition(c, clock_status) == clock_status /\ c.registers.pc # ADDRESS_BRK

\* mutant: the counter is decremented also when it is zero
run_tick_unguarded(c) == [c EXCEPT !.clocks_to_pause = U8(@ - 1)]

\* if self.clocks_to_pause > 0 { self.clocks_to_pause -= 1 }
run_tick(c) ==
    IF c.clocks_to_pause > 0 THEN [c EXCEPT !.clocks_to_pause = @ - 1] ELSE c

\* for _ in 0..steps
bounded_has_next(i, steps) == i < steps

\* mutant: the loop never breaks on a halted step
bounded_break_never(clock_status) == FALSE

\* if !clock_status { break }
bounded_break(clock_status) == ~clock_status

(***************************************************************************)
(* The CPU as one value, and the harness bookkeeping                       *)
(***************************************************************************)
Self == [registers |-> registers, mapper |-> mapper,
         clocks_to_pause |-> clocks_to_pause, instr |-> instr]

Commit(c) ==
    /\ registers' = c.registers
    /\ mapper' = c.mapper
    /\ clocks_to_pause' = c.clocks_to_pause
    /\ instr' = c.instr

\* Cpu6502::default(): zero-filled memory, no pending cycles, no instruction
DefaultRegisters ==
    [a |-> 0, x |-> 0, y |-> 0, pc |-> 0, sp |-> 0,
     carry |-> FALSE, zero |-> FALSE, interrupt_disabled |-> FALSE,
     decimal |-> FALSE, overflow |-> FALSE, negative |-> FALSE]

DefaultCpu ==
    [registers |-> DefaultRegisters, mapper |-> ZeroMem,
     clocks_to_pause |-> 0, instr |-> << >>]

NoCall == [op |-> "none", arg |-> 0, ret |-> 0, sp |-> 0]
Call(o, a, r) == [op |-> o, arg |-> a, ret |-> r, sp |-> registers.sp]
NoLoop == [fn |-> "none"]

\* a call is recorded: the CPU before it, the call, and the call before it
RecordFrom(c, call) ==
    /\ pre' = c
    /\ prev' = last
    /\ last' = call

Record(call) == RecordFrom(Self, call)

(***************************************************************************)
(* Stack harness: N pushes, then pops.  Plan "free" draws every byte from  *)
(* StackVals; plan "long" pushes the fixed sequence LongVal(0), LongVal(1),*)
(* ... so that runs longer than the stack page are explored.               *)
(***************************************************************************)
MaxN == 3
MaxLong == 257
StackVals == {0, 1, 255}
StackVals16 == {255, 256, 43981}
LongSPs == {253}
LongVal(i) == (i % 251) + 1

InitStack ==
    /\ \E plan \in {"free", "long"} :
       \E s \in (IF plan = "free" THEN 0..255 ELSE LongSPs) :
          /\ registers = [DefaultRegisters EXCEPT !.sp = s]
          /\ harness = [kind |-> "stack", plan |-> plan, phase |-> "push", sp0 |-> s]
    /\ mapper = ZeroMem
    /\ clocks_to_pause = 0
    /\ instr = << >>
    /\ pre = DefaultCpu
    /\ last = NoCall
    /\ prev = NoCall
    /\ pushed = << >>
    /\ popped = << >>
    /\ loop = NoLoop

PushCap == IF harness.plan = "long" THEN MaxLong ELSE MaxN

PushStack(v) ==
    /\ harness.kind = "stack"
    /\ harness.phase = "push"
    /\ Len(pushed) < PushCap
    /\ harness.plan = "long" => v = LongVal(Len(pushed))
    /\ Commit(push_stack(Self, v))
    /\ Record(Call("push_stack", v, 0))
    /\ pushed' = Append(pushed, v)
    /\ UNCHANGED <<harness, popped, loop>>

PushStack16(v) ==
    /\ harness.kind = "stack"
    /\ harness.plan = "free"
    /\ harness.phase = "push"
    /\ Len(pushed) + 2 <= MaxN
    /\ Commit(push_stack16(Self, v))
    /\ Record(Call("push_stack16", v, 0))
    /\ pushed' = pushed \o <<v \div 256, v % 256>>
    /\ UNCHANGED <<harness, popped, loop>>

PopStack ==
    /\ harness.kind = "stack"
    /\ Len(popped) < Len(pushed)
    /\ LET r == pop_stack(Self)
       IN  /\ Commit(r.cpu)
           /\ Record(Call("pop_stack", 0, r.ret))
           /\ popped' = Append(popped, r.ret)
    /\ harness' = [harness EXCEPT !.phase = "pop"]
    /\ UNCHANGED <<pushed, loop>>

PopStack16 ==
    /\ harness.kind = "stack"
    /\ harness.plan = "free"
    /\ Len(popped) + 2 <= Len(pushed)
    /\ LET r == pop_stack16(Self)
       IN  /\ Commit(r.cpu)
           /\ Record(Call("pop_stack16", 0, r.ret))
           /\ popped' = popped \o <<r.ret % 256, r.ret \div 256>>
    /\ harness' = [harness EXCEPT !.phase = "pop"]
    /\ UNCHANGED <<pushed, loop>>

NextStack ==
    \/ \E v \in StackVals \cup {LongVal(Len(pushed))} : PushStack(v)
    \/ \E v \in StackVals16 : PushStack16(v)
    \/ PopStack
    \/ PopStack16

SpecStack == InitStack /\ [][NextStack]_vars

(***************************************************************************)
(* Memory harness: up to MaxMemOps writes and program loads on a freshly    *)
(* constructed CPU, then one read.                                         *)
(***************************************************************************)
MaxMemOps == 2
\* $0001, $07FF, $0801, $1FFF, $2000, $FFFE
MemAddrs == {1, 2047, 2049, 8191, 8192, 65534}
MemVals == {0, 171}
\* $1234, $00FF
MemVals16 == {4660, 255}
\* LDA #$01; BRK   and   NOP; NOP; NOP
MemPrograms == {<<169, 1, 0>>, <<234, 234, 234>>}

InitMem ==
    /\ registers = DefaultRegisters
    /\ mapper = ZeroMem
    /\ clocks_to_pause = 0
    /\ instr = << >>
    /\ harness = [kind |-> "mem", n |-> 0, observed |-> FALSE]
    /\ pre = DefaultCpu
    /\ last = NoCall
    /\ prev = NoCall
    /\ pushed = << >>
    /\ popped = << >>
    /\ loop = NoLoop

MemOp(c, call) ==
    /\ harness.kind = "mem"
    /\ ~harness.observed
    /\ harness.n < MaxMemOps
    /\ harness' = [harness EXCEPT !.n = @ + 1]
    /\ Commit(c)
    /\ Record(call)
    /\ UNCHANGED <<pushed, popped, loop>>

MemObserve(call) ==
    /\ harness.kind = "mem"
    /\ ~harness.observed
    /\ harness' = [harness EXCEPT !.observed = TRUE]
    /\ Record(call)
    /\ UNCHANGED <<registers, mapper, clocks_to_pause, instr, pushed, popped, loop>>

MemWrite(addr, data) ==
    MemOp(mem_write(Self, addr, data), Call("mem_write", <<addr, data>>, 0))

MemRead(addr) ==
    MemObserve(Call("mem_read", addr, mem_read(Self, addr)))

MemWriteU16(pos, data) ==
    MemOp(mem_write_u16(Self, pos, data), Call("mem_write_u16", <<pos, data>>, 0))

MemReadU16(pos) ==
    MemObserve(Call("mem_read_u16", pos, mem_read_u16(Self, pos)))

LoadProgram(program) ==
    MemOp(load_program(Self, Vec(program)), Call("load_program", program, 0))

LoadTestProgram(program) ==
    MemOp(load_test_program(Self, Vec(program)), Call("load_test_program", program, 0))

NextMem ==
    \/ \E a \in MemAddrs, v \in MemVals : MemWrite(a, v)
    \/ \E a \in MemAddrs : MemRead(a)
    \/ \E a \in MemAddrs, v \in MemVals16 : MemWriteU16(a, v)
    \/ \E a \in MemAddrs : MemReadU16(a)
    \/ \E p \in MemPrograms : LoadProgram(p)
    \/ \E p \in MemPrograms : LoadTestProgram(p)

SpecMem == InitMem /\ [][NextMem]_vars

(***************************************************************************)
(* Flag harness: the six flags start in any combination; the status byte   *)
(* is encoded and decoded.                                                 *)
(***************************************************************************)
MaxFlagOps == 2
\* the bytes handed to the decoder besides the one just encoded
FlagBytes == {0, 16, 32, 48, 207, 255}

InitFlags ==
    /\ \E cf, zf, idf, df, vf, nf \in BOOLEAN :
          registers = [DefaultRegisters EXCEPT
                          !.carry = cf, !.zero = zf, !.interrupt_disabled = idf,
                          !.decimal = df, !.overflow = vf, !.negative = nf]
    /\ mapper = ZeroMem
    /\ clocks_to_pause = 0
    /\ instr = << >>
    /\ harness = [kind |-> "flags", n |-> 0]
    /\ pre = DefaultCpu
    /\ last = NoCall
    /\ prev = NoCall
    /\ pushed = << >>
    /\ popped = << >>
    /\ loop = NoLoop

FlagOp(c, call) ==
    /\ harness.kind = "flags"
    /\ harness.n < MaxFlagOps
    /\ harness' = [harness EXCEPT !.n = @ + 1]
    /\ Commit(c)
    /\ Record(call)
    /\ UNCHANGED <<pushed, popped, loop>>

StatusRegisterByte(is_instruction) ==
    FlagOp(Self, Call("status_register_byte", is_instruction,
                      status_register_byte(Self, is_instruction)))

SetStatusRegisterFromByte(v) ==
    FlagOp(set_status_register_from_byte(Self, v),
           Call("set_status_register_from_byte", v, 0))

NextFlags ==
    \/ \E ctx \in BOOLEAN : StatusRegisterByte(ctx)
    \/ \E v \in FlagBytes \cup {last.ret} : SetStatusRegisterFromByte(v)

SpecFlags == InitFlags /\ [][NextFlags]_vars

(***************************************************************************)
(* CPU harness: a program is loaded through load_program and the CPU is    *)
(* driven by clocked() calls, by run() or by bounded_run(steps).           *)
(***************************************************************************)
MaxSteps == 4

\* a program image: `head` at PRG_ROM_ADDRESS, zeros, and `tail` in the last
\* two bytes of the 32KB image ($FFFE, $FFFF)
CpuPrograms ==
    { \* LDA #$01; BRK
      [name |-> "lda_brk", head |-> <<169, 1, 0>>, tail |-> << >>, straight |-> TRUE],
      \* LDA #$AB; STA $0801; INX   (then zero memory: BRK)
      [name |-> "lda_sta_inx", head |-> <<169, 171, 141, 1, 8, 232>>, tail |-> << >>,
       straight |-> TRUE],
      \* LDA $80FF,X; INX; LDA $80FF,X   (X = 0: $80FF; X = 1: $8100, across
      \* a page boundary)
      [name |-> "lda_absx", head |-> <<189, 255, 128, 232, 189, 255, 128>>,
       tail |-> << >>, straight |-> TRUE],
      \* JMP $8000
      [name |-> "jmp_self", head |-> <<76, 0, 128>>, tail |-> << >>, straight |-> FALSE],
      \* JMP $FFFE; at $FFFE: LDA #$80
      [name |-> "jmp_top", head |-> <<76, 254, 255>>, tail |-> <<169, 128>>,
       straight |-> FALSE] }

\* the register file before the load: the default one, and one with every
\* register and flag that reset() leaves alone set
RegisterInits ==
    { DefaultRegisters,
      [a |-> 85, x |-> 255, y |-> 7, pc |-> 0, sp |-> 253,
       carry |-> TRUE, zero |-> FALSE, interrupt_disabled |-> TRUE,
       decimal |-> TRUE, overflow |-> TRUE, negative |-> FALSE] }

ClockInits == {0, 1, 255}

ImageOf(prog) ==
    IF prog.tail = << >> THEN Vec(prog.head)
    ELSE [len |-> 32768,
          at  |-> [i \in DOMAIN Vec(prog.head).at
                         \cup {32766 + k : k \in DOMAIN Vec(prog.tail).at} |->
                      IF i < 32766 THEN prog.head[i + 1] ELSE prog.tail[i - 32765]]]

\* mutant: the image is loaded through the test path, which does not reset
LoadImage_test_path(c, prog) == load_test_program(c, ImageOf(prog))

LoadImage(c, prog) == load_program(c, ImageOf(prog))

InitCpu ==
    /\ \E prog \in CpuPrograms, r \in RegisterInits, k \in ClockInits,
          entry \in {"step", "run", "bounded_run"}, n \in 0..MaxSteps :
          LET c == LoadImage([DefaultCpu EXCEPT !.registers = r,
                                                !.clocks_to_pause = k], prog)
          IN  /\ (entry # "bounded_run" => n = MaxSteps)
              /\ registers = c.registers
              /\ mapper = c.mapper
              /\ clocks_to_pause = c.clocks_to_pause
              /\ instr = c.instr
              /\ harness = [kind |-> "cpu", prog |-> prog, entry |-> entry, steps |-> n]
    /\ pre = DefaultCpu
    /\ last = NoCall
    /\ prev = NoCall
    /\ pushed = << >>
    /\ popped = << >>
    /\ loop = [state |-> "loop", clock_status |-> TRUE, i |-> 0, executed |-> 0,
               clocks_at_entry |-> 0]

\* one clocked() call on the CPU `c`; the loop record counts calls and
\* dispatched instructions (capped so that an endless program stays finite)
\* and keeps the pending-cycle counter the iteration started from
Cap(n) == IF n < MaxSteps + 1 THEN n ELSE MaxSteps + 1

DoClocked(c, in_bounded_run) ==
    LET r == clocked(c)
    IN  /\ Commit(r.cpu)
        /\ RecordFrom(c, Call("clocked", r.events, r.ret))
        /\ loop' = [state |-> IF in_bounded_run /\ bounded_break(r.ret)
                              THEN "returned" ELSE "loop",
                    clock_status |-> r.ret,
                    i |-> Cap(loop.i + 1),
                    executed |-> Cap(loop.executed + B2N(r.ret)),
                    clocks_at_entry |-> clocks_to_pause]
        /\ UNCHANGED <<harness, pushed, popped>>

\* the caller steps the CPU itself, also after a halted step
Clocked ==
    /\ harness.kind = "cpu"
    /\ harness.entry = "step"
    /\ loop.i < harness.steps
    /\ DoClocked(Self, FALSE)

\* one iteration of run()'s while loop
RunIter ==
    /\ harness.kind = "cpu"
    /\ harness.entry = "run"
    /\ loop.state = "loop"
    /\ run_condition(Self, loop.clock_status)
    /\ DoClocked(run_tick(Self), FALSE)

\* run()'s loop condition fails: Ok(())
RunReturn ==
    /\ harness.kind = "cpu"
    /\ harness.entry = "run"
    /\ loop.state = "loop"
    /\ ~run_condition(Self, loop.clock_status)
    /\ loop' = [loop EXCEPT !.state = "returned"]
    /\ UNCHANGED <<registers, mapper, clocks_to_pause, instr, harness, pre, last, prev,
                   pushed, popped>>

\* one iteration of bounded_run()'s for loop, with its break
BoundedIter ==
    /\ harness.kind = "cpu"
    /\ harness.entry = "bounded_run"
    /\ loop.state = "loop"
    /\ bounded_has_next(loop.i, harness.steps)
    /\ DoClocked(Self, TRUE)

\* bounded_run()'s range is exhausted: Ok(())
BoundedReturn ==
    /\ harness.kind = "cpu"
    /\ harness.entry = "bounded_run"
    /\ loop.state = "loop"
    /\ ~bounded_has_next(loop.i, harness.steps)
    /\ loop' = [loop EXCEPT !.state = "returned"]
    /\ UNCHANGED <<registers, mapper, clocks_to_pause, instr, harness, pre, last, prev,
                   pushed, popped>>

NextCpu ==
    \/ Clocked
    \/ RunIter
    \/ RunReturn
    \/ BoundedIter
    \/ BoundedReturn

SpecCpu == InitCpu /\ [][NextCpu]_vars

(***************************************************************************)
(* Loader harness: up to MaxLoadOps calls of load_program,                 *)
(* load_test_program and reset on a CPU whose registers, flags, pending    *)
(* cycles and instruction slot are as some earlier run left them.          *)
(***************************************************************************)
MaxLoadOps == 2

\* a full 32KB image: NOP at $8000, the bytes $EA $60 where the reset vector
\* lives ($FFFC, $FFFD), $EA at $FFFF, zeros elsewhere
FullImage ==
    [len |-> 32768,
     at  |-> [i \in {0, 32764, 32765, 32767} |-> IF i = 32765 THEN 96 ELSE 234]]

\* the programs handed to the loaders, by index: LDA #$01; BRK, then
\* NOP; NOP; NOP, then the full image
LoadPrograms == << Vec(<<169, 1, 0>>), Vec(<<234, 234, 234>>), FullImage >>

\* the instruction slot after a NOP step
NopInstr ==
    [opcode |-> "NOP", cycle |-> 2, address_mode |-> "Implied",
     extra_cycle |-> FALSE, write_target |-> << >>, mode_args |-> 0]

InitLoad ==
    /\ registers \in RegisterInits
    /\ mapper = ZeroMem
    /\ clocks_to_pause \in {0, 5}
    /\ instr \in {<< >>, <<NopInstr>>}
    /\ harness = [kind |-> "load", n |-> 0]
    /\ pre = DefaultCpu
    /\ last = NoCall
    /\ prev = NoCall
    /\ pushed = << >>
    /\ popped = << >>
    /\ loop = NoLoop

LoadOp(c, call) ==
    /\ harness.kind = "load"
    /\ harness.n < MaxLoadOps
    /\ harness' = [harness EXCEPT !.n = @ + 1]
    /\ Commit(c)
    /\ Record(call)
    /\ UNCHANGED <<pushed, popped, loop>>

\* the call records hold the index of the program, not its bytes
LoadProgramImage(i) ==
    LoadOp(load_program(Self, LoadPrograms[i]), Call("load_program", i, 0))

LoadTestProgramImage(i) ==
    LoadOp(load_test_program(Self, LoadPrograms[i]), Call("load_test_program", i, 0))

Reset == LoadOp(reset(Self), Call("reset", 0, 0))

NextLoad ==
    \/ \E i \in 1..Len(LoadPrograms) : LoadProgramImage(i)
    \/ \E i \in 1..Len(LoadPrograms) : LoadTestProgramImage(i)
    \/ Reset

SpecLoad == InitLoad /\ [][NextLoad]_vars

(***************************************************************************)
(* SpecStackAny: any interleaving of the four stack operations, from       *)
(* stack pointers at and next to the wrap, on a memory whose stack page    *)
(* and its surroundings hold known bytes                                   *)
(***************************************************************************)
MaxStackOps == 3
StackSPs == {0, 1, 127, 254, 255}
\* $0000, $0001, $007F, $00FE, $00FF below the page; $0200, $0201, $02FF
\* above it; $0900, $09FF, which read as the page; $FFFF
OutsidePage == {0, 1, 127, 254, 255, 512, 513, 767, 2304, 2559, 65535}
\* every slot of the stack page holds its own byte, the surroundings too
KnownMem ==
    [a \in {b \in (SP_BASE_ADDRESS .. (SP_BASE_ADDRESS + STACK_PAGE_SIZE - 1))
                    \cup OutsidePage : (b + 100) % 256 # 0} |-> (a + 100) % 256]

InitStackAny ==
    /\ \E s \in StackSPs : registers = [DefaultRegisters EXCEPT !.sp = s]
    /\ mapper = KnownMem
    /\ clocks_to_pause = 0
    /\ instr = << >>
    /\ harness = [kind |-> "stackany", n |-> 0]
    /\ pre = DefaultCpu
    /\ last = NoCall
    /\ prev = NoCall
    /\ pushed = << >>
    /\ popped = << >>
    /\ loop = NoLoop

StackOp(c, call) ==
    /\ harness.kind = "stackany"
    /\ harness.n < MaxStackOps
    /\ harness' = [harness EXCEPT !.n = @ + 1]
    /\ Commit(c)
    /\ Record(call)
    /\ UNCHANGED <<pushed, popped, loop>>

AnyPushStack(v) == StackOp(push_stack(Self, v), Call("push_stack", v, 0))

AnyPushStack16(v) == StackOp(push_stack16(Self, v), Call("push_stack16", v, 0))

AnyPopStack ==
    LET r == pop_stack(Self) IN StackOp(r.cpu, Call("pop_stack", 0, r.ret))

AnyPopStack16 ==
    LET r == pop_stack16(Self) IN StackOp(r.cpu, Call("pop_stack16", 0, r.ret))

NextStackAny ==
    \/ \E v \in StackVals : AnyPushStack(v)
    \/ \E v \in StackVals16 : AnyPushStack16(v)
    \/ AnyPopStack
    \/ AnyPopStack16

SpecStackAny == InitStackAny /\ [][NextStackAny]_vars

(***************************************************************************)
(* Claims about the stack (checked under SpecStack)                        *)
(***************************************************************************)
\* the bytes popped so far are the pushed bytes in reverse order, and once
\* all are popped the stack pointer is back at its initial value
PopsReversePushes ==
    /\ Len(popped) <= Len(pushed)
    /\ popped = SubSeq(Reverse(pushed), 1, Len(popped))
    /\ (Len(popped) = Len(pushed) => registers.sp = harness.sp0)

\* C1 as stated: for ANY number N of pushed bytes, N pops return them in
\* reverse order and restore the stack pointer.
C1_AnyLength == harness.kind = "stack" => PopsReversePushes

\* C1 amended: for any sequence of N <= 256 pushed bytes (the size of the
\* stack page), from any initial stack pointer, N pops return the bytes in
\* exact reverse order and leave the stack pointer at its initial value.
C1_UpToPageSize ==
    (harness.kind = "stack" /\ Len(pushed) <= STACK_PAGE_SIZE) => PopsReversePushes

\* C1 witness: three bytes pushed from sp = 1 (crossing the 0/255 wrap) and
\* popped again.
C1_Witness ==
    /\ harness.kind = "stack"
    /\ harness.sp0 = 1
    /\ pushed = <<1, 255, 0>>
    /\ popped = <<0, 255, 1>>
    /\ registers.sp = 1

\* C2: push_stack16(v) immediately followed by pop_stack16() returns v and
\* restores the stack pointer to its value before the push.
C2_Push16Pop16 ==
    (last.op = "pop_stack16" /\ prev.op = "push_stack16") =>
        (last.ret = prev.arg /\ registers.sp = prev.sp)

\* C2 witness: 0xABCD pushed from sp = 0 (the two bytes land at $0100 and
\* $01FF) and popped again.
C2_Witness ==
    /\ last.op = "pop_stack16"
    /\ prev.op = "push_stack16"
    /\ prev.sp = 0
    /\ prev.arg = 43981
    /\ last.ret = 43981

(***************************************************************************)
(* Claims about memory (checked under SpecMem)                             *)
(***************************************************************************)
\* C3: after any writes and program loads, a read of an address below $2000
\* returns what a read of (address mod 2048) returns, the same in all four
\* 2KB windows; a read of an address from $2000 up returns the byte stored
\* at that index of the backing array.
C3_MirroredRead ==
    last.op = "mem_read" =>
        IF last.arg < 8192
        THEN /\ last.ret = mem_read(Self, last.arg % 2048)
             /\ \A k \in 0..3 : mem_read(Self, (last.arg % 2048) + k * 2048) = last.ret
        ELSE last.ret = MemGet(mapper, last.arg)

\* C3 witness: $AB was written at $0801 and the read of $0801 returns the
\* byte of the first window instead.
C3_Witness ==
    /\ last.op = "mem_read"
    /\ last.arg = 2049
    /\ MemGet(mapper, 2049) = 171
    /\ last.ret = 0

\* C4: mem_write_u16(p, v) followed by mem_read_u16(p) returns v, with the
\* low byte stored at index p and the high byte at index p + 1.
C4_Write16Read16 ==
    (/\ last.op = "mem_read_u16"
     /\ prev.op = "mem_write_u16"
     /\ prev.arg[1] = last.arg) =>
        /\ last.ret = prev.arg[2]
        /\ MemGet(mapper, last.arg) = prev.arg[2] % 256
        /\ MemGet(mapper, last.arg + 1) = prev.arg[2] \div 256

(***************************************************************************)
(* Claims about the status register (checked under SpecFlags)              *)
(***************************************************************************)
Flags(r) == <<r.carry, r.zero, r.interrupt_disabled, r.decimal, r.overflow, r.negative>>

\* C5: decoding the byte that status_register_byte(ctx) just returned leaves
\* all six flags as they were, for every flag combination and both ctx.
C5_StatusRoundTrip ==
    (/\ last.op = "set_status_register_from_byte"
     /\ prev.op = "status_register_byte"
     /\ last.arg = prev.ret) =>
        Flags(registers) = Flags(pre.registers)

\* C5 witness: overflow and carry set, encoded outside an instruction and
\* decoded again.
C5_Witness ==
    /\ last.op = "set_status_register_from_byte"
    /\ prev.op = "status_register_byte"
    /\ prev.arg = FALSE
    /\ last.arg = prev.ret
    /\ registers.overflow
    /\ registers.carry
    /\ ~registers.negative

\* C6: the encoded byte has bit 5 set always, bit 4 set exactly when
\* is_instruction, and bits 0,1,2,3,6,7 equal to carry, zero,
\* interrupt-disabled, decimal, overflow, negative.
C6_StatusByteLayout ==
    last.op = "status_register_byte" =>
        /\ Bit(last.ret, 5) = 1
        /\ Bit(last.ret, 4) = B2N(last.arg)
        /\ Bit(last.ret, 0) = B2N(registers.carry)
        /\ Bit(last.ret, 1) = B2N(registers.zero)
        /\ Bit(last.ret, 2) = B2N(registers.interrupt_disabled)
        /\ Bit(last.ret, 3) = B2N(registers.decimal)
        /\ Bit(last.ret, 6) = B2N(registers.overflow)
        /\ Bit(last.ret, 7) = B2N(registers.negative)

(***************************************************************************)
(* Claims about the step and the run loops (checked under SpecCpu)         *)
(***************************************************************************)
\* the last call was a clocked() that fetched the operation `op`
Fetched(op) == last.op = "clocked" /\ last.arg[1].op = op
FetchedBrk == Fetched("BRK")
\* the last call was a clocked() that fetched an operation other than BRK
FetchedOther == last.op = "clocked" /\ last.arg[1].op # "BRK"

\* the byte length of an instruction, by addressing mode
TotalLength(mode) ==
    CASE mode = "Implied" -> 1
      [] mode = "Immediate" -> 2
      [] mode \in {"Absolute", "AbsoluteX"} -> 3

\* C7: a step that fetches BRK reports halted and changes nothing (program
\* counter, stack pointer, registers, flags, memory, pending cycles, the
\* last-instruction slot), dispatches no handler, and a further step from
\* that state reports halted again.
C7_BrkStepIsFrame ==
    /\ FetchedBrk =>
          /\ last.ret = FALSE
          /\ Self = pre
          /\ Len(last.arg) = 1
          /\ last.arg[1].ev = "debug"
    /\ (last.op = "clocked" /\ prev.op = "clocked" /\ harness.entry = "step"
            /\ prev.ret = FALSE) => last.ret = FALSE

\* C7 witness: after LDA #$01 executed, two steps in a row fetch the BRK at
\* $8002 with the registers, flags and instruction slot that were set before.
C7_Witness ==
    /\ FetchedBrk
    /\ prev.op = "clocked"
    /\ prev.ret = FALSE
    /\ harness.entry = "step"
    /\ registers.pc = 32770
    /\ registers.a = 1
    /\ registers.y = 7
    /\ registers.carry
    /\ instr # << >>
    /\ clocks_to_pause = 0

\* C8: in every non-BRK step the handler is dispatched on a CPU whose program
\* counter is already (pc + total instruction byte length) mod 65536 and which
\* otherwise is the CPU at the fetch with the instruction slot set.
C8_PcAdvancedBeforeDispatch ==
    FetchedOther =>
        /\ last.ret = TRUE
        /\ Len(last.arg) = 2
        /\ last.arg[2].ev = "dispatch"
        /\ LET ins == last.arg[2].cpu.instr[1]
               seen == last.arg[2].cpu
           IN  /\ seen.registers.pc =
                      (pre.registers.pc + TotalLength(ins.address_mode)) % 65536
               /\ seen = [pre EXCEPT !.registers.pc = seen.registers.pc,
                                     !.instr = <<ins>>]
               /\ (ins.opcode # "JMP" => registers.pc = seen.registers.pc)

\* C8 witness: LDA #$80 fetched at $FFFE; the handler sees the program
\* counter wrapped to $0000.
C8_Witness ==
    /\ Fetched("LDA")
    /\ pre.registers.pc = 65534
    /\ last.arg[2].cpu.registers.pc = 0
    /\ registers.pc = 0
    /\ registers.a = 128

\* C9: run() executes a step only when the previous step reported continue
\* and the program counter is not the sentinel; it returns only after a step
\* fetched BRK or with the program counter at the sentinel; otherwise its
\* loop condition holds, so it makes another step and does not return.
C9_RunLoop ==
    harness.entry = "run" =>
        /\ last.op = "clocked" =>
              /\ pre.registers.pc # ADDRESS_BRK
              /\ (prev.op = "clocked" => prev.ret = TRUE)
        /\ loop.state = "returned" =>
              (FetchedBrk /\ last.ret = FALSE) \/ registers.pc = ADDRESS_BRK
        /\ (loop.state = "loop" /\ ~FetchedBrk /\ registers.pc # ADDRESS_BRK) =>
              run_condition(Self, loop.clock_status)

\* C9 witness: run() returned because the JMP left the program counter at
\* the sentinel, the last step having reported continue.
C9_Witness ==
    /\ harness.entry = "run"
    /\ loop.state = "returned"
    /\ Fetched("JMP")
    /\ last.ret = TRUE
    /\ registers.pc = ADDRESS_BRK

\* the 1-based index of the first BRK of a straight-line program (the zero
\* memory after the program is a BRK)
RECURSIVE FirstBrk(_, _, _)
FirstBrk(bytes, pos, idx) ==
    IF pos > Len(bytes) \/ bytes[pos] = 0 THEN idx
    ELSE FirstBrk(bytes, pos + TotalLength(OPCODE_TABLE(bytes[pos])[2]), idx + 1)

Min(a, b) == IF a < b THEN a ELSE b

\* C10: bounded_run(N) makes at most N steps and none after a halted step;
\* on a straight-line program whose j-th instruction is its first BRK it
\* returns with min(N, j-1) instructions executed: all N when N < j, and
\* j-1, stopping on the fetch of the BRK, when j <= N.
C10_BoundedRun ==
    harness.entry = "bounded_run" =>
        /\ loop.i <= harness.steps
        /\ loop.executed <= harness.steps
        /\ (last.op = "clocked" /\ prev.op = "clocked") => prev.ret = TRUE
        /\ (loop.state = "returned" /\ harness.prog.straight) =>
              LET j == FirstBrk(harness.prog.head, 1, 1)
              IN  /\ loop.executed = Min(harness.steps, j - 1)
                  /\ (j <= harness.steps =>
                         FetchedBrk /\ loop.i = j /\ loop.executed = j - 1)
                  /\ (j > harness.steps => loop.i = harness.steps)

\* C10 witness: budget 3 on the three-instruction program executed all three.
C10_Witness ==
    /\ harness.entry = "bounded_run"
    /\ harness.steps = 3
    /\ harness.prog.name = "lda_sta_inx"
    /\ loop.state = "returned"
    /\ loop.executed = 3
    /\ Fetched("INX")
    /\ registers.pc = 32774

\* the byte offset of the first BRK of a straight-line program
RECURSIVE BrkOffset(_, _)
BrkOffset(bytes, pos) ==
    IF pos > Len(bytes) \/ bytes[pos] = 0 THEN pos - 1
    ELSE BrkOffset(bytes, pos + TotalLength(OPCODE_TABLE(bytes[pos])[2]))

\* C14: run() on a straight-line program loaded by load_program returns on
\* the fetch of the first BRK, which is not dispatched, with each of the j-1
\* instructions before it executed once and the program counter at the base
\* address plus their total byte length; for LDA #$01; BRK the accumulator
\* ends at 1 and the program counter at base + 2.
C14_RunToBrk ==
    (harness.entry = "run" /\ harness.prog.straight) =>
        /\ loop.executed = loop.i - B2N(FetchedBrk)
        /\ loop.executed < FirstBrk(harness.prog.head, 1, 1)
        /\ loop.state = "returned" =>
              /\ FetchedBrk
              /\ last.ret = FALSE
              /\ Len(last.arg) = 1
              /\ last.arg[1].ev = "debug"
              /\ loop.executed = FirstBrk(harness.prog.head, 1, 1) - 1
              /\ registers.pc = PRG_ROM_ADDRESS + BrkOffset(harness.prog.head, 1)
              /\ harness.prog.name = "lda_brk" =>
                    registers.a = 1 /\ registers.pc = PRG_ROM_ADDRESS + 2

\* C14 witness: run() returned on LDA #$01; BRK with the accumulator at 1.
C14_Witness ==
    /\ harness.entry = "run"
    /\ harness.prog.name = "lda_brk"
    /\ loop.state = "returned"
    /\ FetchedBrk
    /\ loop.executed = 1
    /\ registers.a = 1
    /\ registers.pc = 32770

Max(a, b) == IF a > b THEN a ELSE b

\* C15: a non-BRK step of an instruction of base cycle count c >= 1 leaves
\* the pending-cycle counter at (counter + c - 1) mod 256; a run-loop
\* iteration from the counter k steps from max(k - 1, 0), so it leaves
\* (max(k - 1, 0) + c - 1) mod 256; the counter is always within 0..255.
C15_PendingCycles ==
    /\ clocks_to_pause \in 0..255
    /\ last.op = "clocked" =>
          /\ pre.clocks_to_pause \in 0..255
          /\ pre.clocks_to_pause = IF harness.entry = "run"
                                   THEN Max(loop.clocks_at_entry - 1, 0)
                                   ELSE loop.clocks_at_entry
    /\ FetchedOther =>
          LET c == instr[1].cycle
          IN  /\ c >= 1
              /\ clocks_to_pause = (pre.clocks_to_pause + c - 1) % 256
              /\ harness.entry = "run" =>
                    clocks_to_pause =
                        (Max(loop.clocks_at_entry - 1, 0) + c - 1) % 256

\* C15 witness: a run-loop iteration from the counter 255 executed STA
\* (4 cycles): 254 + 3 wraps to 1.
C15_Witness ==
    /\ harness.entry = "run"
    /\ Fetched("STA")
    /\ loop.clocks_at_entry = 255
    /\ pre.clocks_to_pause = 254
    /\ clocks_to_pause = 1

\* C15 witness of the guard: a run-loop iteration from the counter 0
\* executed LDA (2 cycles) and left 1.
C15_WitnessZero ==
    /\ harness.entry = "run"
    /\ Fetched("LDA")
    /\ loop.clocks_at_entry = 0
    /\ pre.clocks_to_pause = 0
    /\ clocks_to_pause = 1

\* the indexed address of the fetched instruction is on another page than
\* the base address it was formed from
PageCrossed(ins) ==
    /\ ins.address_mode = "AbsoluteX"
    /\ ins.write_target[1] \div 256 # ins.mode_args \div 256

\* C16: a step of an instruction whose extra-cycle flag is set and whose
\* indexed address crosses a page boundary adds one cycle more to the
\* pending-cycle counter than the c - 1 it adds without a crossing.
C16_ExtraCycleHonoured ==
    (FetchedOther /\ instr[1].extra_cycle) =>
        clocks_to_pause =
            (pre.clocks_to_pause + instr[1].cycle - 1
                + B2N(PageCrossed(instr[1]))) % 256

\* what the step does: c - 1 cycles, page boundary crossed or not
C16_ExtraCycleIgnored ==
    (FetchedOther /\ instr[1].extra_cycle /\ PageCrossed(instr[1])) =>
        clocks_to_pause = (pre.clocks_to_pause + instr[1].cycle - 1) % 256

\* LDA $80FF,X with X = 1 was executed: the address $8100 is across a page
C16_Crossing ==
    /\ Fetched("LDA")
    /\ instr[1].extra_cycle
    /\ PageCrossed(instr[1])
    /\ instr[1].write_target = <<33024>>

\* C18: every clocked() call invokes the debug hook exactly once, before
\* anything else, BRK or not; in a non-BRK step the CPU it observes has the
\* program counter, registers, flags, memory and pending cycles of the CPU at
\* the fetch, the program counter still at the fetched opcode (only the
\* instruction slot already holds the fetched instruction).
C18_DebugBeforeMutation ==
    last.op = "clocked" =>
        /\ Len(last.arg) >= 1
        /\ last.arg[1].ev = "debug"
        /\ \A n \in 2..Len(last.arg) : last.arg[n].ev # "debug"
        /\ FetchedOther =>
              LET seen == last.arg[1].cpu
              IN  /\ seen.registers = pre.registers
                  /\ seen.mapper = pre.mapper
                  /\ seen.clocks_to_pause = pre.clocks_to_pause
                  /\ mem_read(seen, seen.registers.pc) = mem_read(pre, pre.registers.pc)
                  /\ OPCODE_TABLE(mem_read(seen, seen.registers.pc))[1] = last.arg[1].op

\* C18 witness: INX changed X, the negative flag and the program counter;
\* the debug hook of that step saw them as they were before it.
C18_Witness ==
    /\ Fetched("INX")
    /\ harness.prog.name = "lda_sta_inx"
    /\ last.arg[1].cpu.registers.pc = 32773
    /\ registers.pc = 32774
    /\ last.arg[1].cpu.registers.x = 0
    /\ registers.x = 1
    /\ last.arg[1].cpu.registers.negative
    /\ ~registers.negative

(***************************************************************************)
(* Claims about the loaders and reset (checked under SpecLoad)             *)
(***************************************************************************)
\* the program of the last load call
LoadedProgram == LoadPrograms[last.arg]

\* the byte p[i] is stored at index base + i (i counted from 0)
StoredAt(i) == MemGet(mapper, PRG_ROM_ADDRESS + i) = VecAt(LoadedProgram, i)

\* the offsets i where p[i] or the byte at base + i is not zero, with the
\* first and the last: at every other offset of p both bytes are zero, so
\* a statement on all offsets of p is decided on these
Offsets ==
    {i \in (DOMAIN LoadedProgram.at)
            \cup {j - PRG_ROM_ADDRESS : j \in DOMAIN mapper}
            \cup {0, LoadedProgram.len - 1} :
        0 <= i /\ i < LoadedProgram.len}

\* the reset vector holds the base address and the program counter is there
VectorAndPcAtBase ==
    /\ mem_read_u16(Self, PC_ADDRESS_RESET) = PRG_ROM_ADDRESS
    /\ MemGet(mapper, PC_ADDRESS_RESET) = PRG_ROM_ADDRESS % 256
    /\ MemGet(mapper, PC_ADDRESS_RESET + 1) = PRG_ROM_ADDRESS \div 256
    /\ registers.pc = PRG_ROM_ADDRESS

\* C11 as stated: after load_program(p), for every p that fits, every byte
\* p[i] is stored at base + i, the reset vector holds the base address and
\* the program counter equals it.
C11_EveryByteStored ==
    last.op = "load_program" =>
        /\ \A i \in Offsets : StoredAt(i)
        /\ VectorAndPcAtBase

\* C11 amended: after load_program(p), for every p that fits, every byte
\* p[i] whose index base + i is not one of the two reset-vector bytes is
\* stored at base + i (the vector bytes hold the base address instead), and
\* the program counter equals the base address.
C11_EveryByteButVector ==
    last.op = "load_program" =>
        /\ \A i \in Offsets :
              (PRG_ROM_ADDRESS + i) \notin {PC_ADDRESS_RESET, PC_ADDRESS_RESET + 1}
                  => StoredAt(i)
        /\ VectorAndPcAtBase

\* C11 witness: the full 32KB image was loaded over a CPU whose program
\* counter was elsewhere; its last byte is at $FFFF.
C11_Witness ==
    /\ last.op = "load_program"
    /\ last.arg = 3
    /\ pre.registers.pc # PRG_ROM_ADDRESS
    /\ MemGet(mapper, 65535) = 234
    /\ MemGet(mapper, PRG_ROM_ADDRESS) = 234
    /\ registers.pc = PRG_ROM_ADDRESS

\* the two bytes of the reset vector are those of the CPU before the call
ResetVectorUnchanged ==
    /\ MemGet(mapper, PC_ADDRESS_RESET) = MemGet(pre.mapper, PC_ADDRESS_RESET)
    /\ MemGet(mapper, PC_ADDRESS_RESET + 1) = MemGet(pre.mapper, PC_ADDRESS_RESET + 1)

\* load_test_program copied p, wrote the test vector and left the registers,
\* flags, pending cycles and instruction slot alone
TestLoadEffect ==
    /\ \A i \in Offsets : StoredAt(i)
    /\ mem_read_u16(Self, ADDRESS_TEST_PROGRAM) = PRG_ROM_ADDRESS
    /\ MemGet(mapper, ADDRESS_TEST_PROGRAM) = PRG_ROM_ADDRESS % 256
    /\ MemGet(mapper, ADDRESS_TEST_PROGRAM + 1) = PRG_ROM_ADDRESS \div 256
    /\ registers = pre.registers
    /\ clocks_to_pause = pre.clocks_to_pause
    /\ instr = pre.instr

\* C12 as stated: load_test_program(p) copies p to the base address, writes
\* the base address to the test vector and leaves the program counter, stack
\* pointer, registers, flags, pending cycles, instruction slot and the
\* reset-vector bytes unchanged.
C12_TestLoadKeepsResetVector ==
    last.op = "load_test_program" => (TestLoadEffect /\ ResetVectorUnchanged)

\* C12 amended: as stated, except that the reset-vector bytes are unchanged
\* only when p does not reach them (p has at most $7FFC bytes); a longer p
\* leaves its own bytes there.
C12_TestLoadFrame ==
    last.op = "load_test_program" =>
        /\ TestLoadEffect
        /\ (PRG_ROM_ADDRESS + LoadedProgram.len <= PC_ADDRESS_RESET
               => ResetVectorUnchanged)
        /\ (PRG_ROM_ADDRESS + LoadedProgram.len > PC_ADDRESS_RESET + 1
               => StoredAt(PC_ADDRESS_RESET - PRG_ROM_ADDRESS)
                  /\ StoredAt(PC_ADDRESS_RESET + 1 - PRG_ROM_ADDRESS))

\* C12 witness: a short program is test-loaded after a production load set
\* the reset vector, on a CPU with Y, the stack pointer and flags set.
C12_Witness ==
    /\ last.op = "load_test_program"
    /\ last.arg = 1
    /\ prev.op = "load_program"
    /\ registers.pc = PRG_ROM_ADDRESS
    /\ registers.y = 7
    /\ registers.sp = 253
    /\ registers.carry
    /\ MemGet(mapper, PC_ADDRESS_RESET + 1) = 128
    /\ MemGet(mapper, ADDRESS_TEST_PROGRAM + 1) = 128
    /\ MemGet(mapper, PRG_ROM_ADDRESS) = 169

\* C13: reset() clears the instruction slot, zeroes A and X, sets the
\* program counter to the little-endian word at the reset vector, and leaves
\* Y, the stack pointer, the six flags, the pending cycles and memory alone.
C13_ResetFrame ==
    last.op = "reset" =>
        /\ instr = << >>
        /\ registers.a = 0
        /\ registers.x = 0
        /\ registers.pc = MemGet(pre.mapper, PC_ADDRESS_RESET)
                            + 256 * MemGet(pre.mapper, PC_ADDRESS_RESET + 1)
        /\ registers.y = pre.registers.y
        /\ registers.sp = pre.registers.sp
        /\ Flags(registers) = Flags(pre.registers)
        /\ clocks_to_pause = pre.clocks_to_pause
        /\ mapper = pre.mapper

\* C13 witness: reset after the full image was test-loaded: the program
\* counter becomes $60EA, the word the image holds at the reset vector.
C13_Witness ==
    /\ last.op = "reset"
    /\ pre.registers.a = 85
    /\ pre.registers.x = 255
    /\ pre.instr # << >>
    /\ registers.y = 7
    /\ registers.sp = 253
    /\ registers.overflow
    /\ clocks_to_pause = 5
    /\ registers.pc = 24810

(***************************************************************************)
(* Claims about the stack page (checked under SpecStack and SpecStackAny)  *)
(***************************************************************************)
\* the two slots push_stack16 wrote from the stack pointer `sp`
HiSlot(sp) == SP_BASE_ADDRESS + sp
LoSlot(sp) == SP_BASE_ADDRESS + ((sp + 255) % 256)

\* the low byte is the first byte a following pop_stack returns
LowBytePoppedFirst ==
    (last.op = "pop_stack" /\ prev.op = "push_stack16") => last.ret = prev.arg % 256

\* C17 as stated: after push_stack16(v) the low byte of v is at the
\* numerically HIGHER of the two slots written, and is the first byte a
\* following pop_stack returns.
C17_LowByteAtHigherSlot ==
    /\ last.op = "push_stack16" =>
          MemGet(mapper, Max(HiSlot(last.sp), LoSlot(last.sp))) = last.arg % 256
    /\ LowBytePoppedFirst

\* C17 amended: push_stack16(v) pushes the high byte first, at base|sp, and
\* the low byte second, at base|(sp - 1 mod 256): the low byte is at the
\* numerically lower of the two slots (the higher only when sp was 0 and
\* the pointer wrapped to 255), and is the first byte a following pop_stack
\* returns.
C17_LowByteAtSecondSlot ==
    /\ last.op = "push_stack16" =>
          /\ MemGet(mapper, HiSlot(last.sp)) = last.arg \div 256
          /\ MemGet(mapper, LoSlot(last.sp)) = last.arg % 256
          /\ registers.sp = (last.sp + 254) % 256
          /\ (last.sp # 0 => LoSlot(last.sp) = HiSlot(last.sp) - 1)
          /\ (last.sp = 0 => LoSlot(last.sp) = 511 /\ HiSlot(last.sp) = 256)
    /\ LowBytePoppedFirst

\* C17 witness: $ABCD pushed from sp = 5 ($AB at $0105, $CD at $0104) and
\* one byte popped: $CD.
C17_Witness ==
    /\ last.op = "pop_stack"
    /\ prev.op = "push_stack16"
    /\ prev.sp = 5
    /\ prev.arg = 43981
    /\ last.ret = 205
    /\ MemGet(mapper, 260) = 205
    /\ MemGet(mapper, 261) = 171

\* the addresses at which the memory differs from the memory before the call
Changed == {a \in DOMAIN mapper \cup DOMAIN pre.mapper :
               MemGet(mapper, a) # MemGet(pre.mapper, a)}
StackPage == SP_BASE_ADDRESS .. (SP_BASE_ADDRESS + STACK_PAGE_SIZE - 1)
\* the slot of the stack page the pointer `sp` plus `d` (mod 256) selects
Slot(sp, d) == SP_BASE_ADDRESS + ((sp + d) % 256)

\* C19: in any sequence of push_stack, pop_stack, push_stack16 and
\* pop_stack16 calls from any stack pointer, each byte is written at, or
\* returned from, (stack-page base | stack pointer), inside the stack page;
\* no byte outside the page changes; the stack pointer stays an 8-bit value
\* and wraps (a push at 0 leaves 255, a pop at 255 leaves 0).
C19_StackStaysInPage ==
    LET sp0 == pre.registers.sp
    IN  /\ registers.sp \in 0..255
        /\ BitOr(SP_BASE_ADDRESS, registers.sp) = SP_BASE_ADDRESS + registers.sp
        /\ last.op # "none" =>
              /\ Changed \subseteq StackPage
              /\ \A a \in OutsidePage : MemGet(mapper, a) = MemGet(KnownMem, a)
        /\ last.op = "push_stack" =>
              /\ Changed \subseteq {Slot(sp0, 0)}
              /\ MemGet(mapper, Slot(sp0, 0)) = last.arg
              /\ registers.sp = (sp0 + 255) % 256
              /\ (sp0 = 0 => registers.sp = 255)
        /\ last.op = "push_stack16" =>
              /\ Changed \subseteq {Slot(sp0, 0), Slot(sp0, 255)}
              /\ MemGet(mapper, Slot(sp0, 0)) = last.arg \div 256
              /\ MemGet(mapper, Slot(sp0, 255)) = last.arg % 256
              /\ registers.sp = (sp0 + 254) % 256
        /\ last.op = "pop_stack" =>
              /\ Changed = {}
              /\ registers.sp = (sp0 + 1) % 256
              /\ (sp0 = 255 => registers.sp = 0)
              /\ last.ret = MemGet(pre.mapper, Slot(sp0, 1))
        /\ last.op = "pop_stack16" =>
              /\ Changed = {}
              /\ registers.sp = (sp0 + 2) % 256
              /\ last.ret = MemGet(pre.mapper, Slot(sp0, 1))
                             + 256 * MemGet(pre.mapper, Slot(sp0, 2))

\* C19 witness: a pop at sp = 255 left 0 and returned the byte at $0100; the
\* push at 0 that followed wrote $0100 and left 255.
C19_Witness ==
    /\ harness.kind = "stackany"
    /\ prev.op = "pop_stack"
    /\ prev.sp = 255
    /\ prev.ret = 100
    /\ last.op = "push_stack"
    /\ last.sp = 0
    /\ last.arg = 1
    /\ MemGet(mapper, 256) = 1
    /\ registers.sp = 255

(***************************************************************************)
(* Claims about the unmirrored write (checked under SpecMem)               *)
(***************************************************************************)
\* the addresses whose read can depend on the bytes stored before or after
\* the last call, or on the byte at `a`: those indices and all their windows
Probes(a) ==
    LET stored == DOMAIN mapper \cup DOMAIN pre.mapper \cup MemAddrs \cup {a}
    IN  stored \cup {(b % 2048) + k * 2048 : b \in {x \in stored : x < 8192},
                                             k \in 0..3}

\* C20: a mem_write to an address in [$0800, $2000) changes the value
\* mem_read returns at no address, the written one included; a mem_write of
\* v to an address a below $0800 makes the reads at a, a + $0800, a + $1000
\* and a + $1800 return v and changes the read at no other address.
C20_UnmirroredWrite ==
    last.op = "mem_write" =>
        LET a == last.arg[1]
            v == last.arg[2]
            windows == {a + k * 2048 : k \in 0..3}
        IN  /\ MemGet(mapper, a) = v
            /\ (a >= 2048 /\ a < 8192) =>
                   \A b \in Probes(a) : mem_read(Self, b) = mem_read(pre, b)
            /\ a < 2048 =>
                   \A b \in Probes(a) :
                       mem_read(Self, b) = IF b \in windows THEN v
                                           ELSE mem_read(pre, b)

\* C20 witness: $AB was written at $0001, then $00 at $0801: $0801 and
\* $1801 still read $AB.
C20_Witness ==
    /\ last.op = "mem_write"
    /\ last.arg = <<2049, 0>>
    /\ prev.op = "mem_write"
    /\ prev.arg = <<1, 171>>
    /\ mem_read(Self, 2049) = 171
    /\ mem_read(Self, 6145) = 171
    /\ mem_read(pre, 2049) = 171

====
